---- MODULE Spec2Model ----
(***************************************************************************)
(* Kali-Trace terminal session logger (src/Kali-Trace/logger.py).          *)
(*                                                                         *)
(* Text is a sequence of characters; a character is a one-element string,  *)
(* control characters carry a name (ESC, BEL, BS, LF, CR, TAB).  Bytes are *)
(* the same for ASCII; the two bytes xC3 xA9 stand for one two-byte UTF-8  *)
(* character, so that decoding is not the identity.                        *)
(***************************************************************************)
EXTENDS Integers, Sequences, FiniteSets, TLC

(***************************************************************************)
(* Characters and character classes                                        *)
(***************************************************************************)
ESC == "ESC"
BEL == "BEL"
BS == "BS"
LF == "LF"
CR == "CR"
TAB == "TAB"
BSLASH == "BSLASH"
REPL == "U+FFFD"
E_ACUTE == "U+00E9"
xC3 == "xC3"
xA9 == "xA9"
BACKTICK == "BACKTICK"

Digits == {"0", "1", "2", "3", "4", "5", "6", "7", "8", "9"}

DigitVal(c) ==
    CASE c = "0" -> 0 [] c = "1" -> 1 [] c = "2" -> 2 [] c = "3" -> 3
      [] c = "4" -> 4 [] c = "5" -> 5 [] c = "6" -> 6 [] c = "7" -> 7
      [] c = "8" -> 8 [] c = "9" -> 9

\* [0-9;?] of the CSI alternative
CsiParams == Digits \cup {";", "?"}

\* [\x40-\x7e] of the CSI alternative
CsiFinal ==
    {"@", "A", "B", "C", "D", "E", "F", "G", "H", "I", "J", "K", "L", "M",
     "N", "O", "P", "Q", "R", "S", "T", "U", "V", "W", "X", "Y", "Z",
     "[", BSLASH, "]", "^", "_", BACKTICK,
     "a", "b", "c", "d", "e", "f", "g", "h", "i", "j", "k", "l", "m",
     "n", "o", "p", "q", "r", "s", "t", "u", "v", "w", "x", "y", "z",
     "{", "|", "}", "~"}

\* [=@>78()EHM] of the two-character alternative
TwoCharSet == {"=", "@", ">", "7", "8", "(", ")", "E", "H", "M"}

\* what str.rstrip() and int() strip
Whitespace == {" ", TAB, LF, CR}

Max(a, b) == IF a >= b THEN a ELSE b

(***************************************************************************)
(* Sequence helpers standing for Python string primitives                  *)
(***************************************************************************)
\* s[a:b] with 0-based a, b already clamped by the calling code
Slice(s, a, b) ==
    LET lo == Max(a, 0)
        hi == IF b > Len(s) THEN Len(s) ELSE b
    IN  IF hi <= lo THEN <<>> ELSE SubSeq(s, lo + 1, hi)

StartsWith(s, p) == Len(s) >= Len(p) /\ SubSeq(s, 1, Len(p)) = p

EndsWith(s, c) == Len(s) >= 1 /\ s[Len(s)] = c

\* str.rstrip()
RStrip(s) ==
    LET keep == {i \in 1..Len(s) : s[i] \notin Whitespace}
    IN  IF keep = {} THEN <<>>
        ELSE SubSeq(s, 1, CHOOSE i \in keep : \A j \in keep : j <= i)

\* the leading-whitespace half of the strip int() performs
LStrip(s) ==
    LET keep == {i \in 1..Len(s) : s[i] \notin Whitespace}
    IN  IF keep = {} THEN <<>>
        ELSE SubSeq(s, CHOOSE i \in keep : \A j \in keep : i <= j, Len(s))

\* positions (1-based) of the escape characters of s
EscPositions(s) == {i \in 1..Len(s) : s[i] = ESC}

\* str.rfind('\x1B'), 0-based, -1 when absent
RFindEsc(s) ==
    IF EscPositions(s) = {} THEN -1
    ELSE (CHOOSE i \in EscPositions(s) : \A j \in EscPositions(s) : j <= i) - 1

RECURSIVE DecVal(_, _)
DecVal(s, acc) ==
    IF s = <<>> THEN acc
    ELSE IF s[1] = "_" THEN DecVal(Tail(s), acc)
    ELSE DecVal(Tail(s), 10 * acc + DigitVal(s[1]))

\* the digits of an int() literal: decimal digits, single underscores only
\* between digits
WellFormedDigits(d) ==
    /\ d # <<>>
    /\ \A i \in 1..Len(d) : d[i] \in Digits \cup {"_"}
    /\ d[1] \in Digits
    /\ d[Len(d)] \in Digits
    /\ \A i \in 1..(Len(d) - 1) : ~(d[i] = "_" /\ d[i + 1] = "_")

IntOfDigits(d, negative) ==
    IF WellFormedDigits(d)
    THEN [ok |-> TRUE, val |-> IF negative THEN 0 - DecVal(d, 0) ELSE DecVal(d, 0)]
    ELSE [ok |-> FALSE, val |-> 0]

IntOfStripped(t) ==
    IF t # <<>> /\ t[1] \in {"+", "-"} THEN IntOfDigits(Tail(t), t[1] = "-")
    ELSE IntOfDigits(t, FALSE)

\* int(text): surrounding whitespace stripped, an optional sign, decimal
\* digits; anything else raises ValueError (ok = FALSE)
IntParse(text) == IntOfStripped(RStrip(LStrip(text)))

\* mode = 0 kept when int() raises
IntOrZero(p) == IF p.ok THEN p.val ELSE 0

(***************************************************************************)
(* Tokenizer: token_pattern and re.split                                   *)
(***************************************************************************)
RECURSIVE SkipWhile(_, _, _)
SkipWhile(s, j, class) ==
    IF j <= Len(s) /\ s[j] \in class THEN SkipWhile(s, j + 1, class) ELSE j

\* lazy .*? up to BEL or ESC-backslash; '.' does not match a line feed
RECURSIVE OscEnd(_, _)
OscEnd(s, t) ==
    IF t > Len(s) THEN 0
    ELSE IF s[t] = BEL THEN t
    ELSE IF s[t] = ESC /\ t + 1 <= Len(s) /\ s[t + 1] = BSLASH THEN t + 1
    ELSE IF s[t] = LF THEN 0
    ELSE OscEnd(s, t + 1)

\* last index (1-based) of the match of token_pattern starting at i, 0 if none
MatchEnd(s, i) ==
    IF ~(s[i] = ESC /\ i + 1 <= Len(s)) THEN 0
    ELSE IF s[i + 1] = "["
         THEN LET j == SkipWhile(s, i + 2, CsiParams)
              IN  IF j <= Len(s) /\ s[j] \in CsiFinal THEN j ELSE 0
    ELSE IF s[i + 1] = "]"
         THEN LET j == SkipWhile(s, i + 2, Digits)
              IN  IF j <= Len(s) /\ s[j] = ";" THEN OscEnd(s, j + 1) ELSE 0
    ELSE IF s[i + 1] \in TwoCharSet THEN i + 1
    ELSE 0

\* the first position at or after i holding an escape character, the only
\* character a match can start with; Len(s) + 1 when there is none
NextEsc(s, i) ==
    IF \E j \in i..Len(s) : s[j] = ESC
    THEN CHOOSE j \in i..Len(s) : s[j] = ESC /\ \A k \in i..(j - 1) : s[k] # ESC
    ELSE Len(s) + 1

\* token_pattern.split(chunk) without the empty and None entries the loop
\* skips: text runs and matched tokens in order; i is where the scan for the
\* next match stands, start where the current text run began
RECURSIVE SplitFrom(_, _, _)
SplitFrom(s, i, start) ==
    IF i > Len(s)
    THEN IF start <= Len(s) THEN <<SubSeq(s, start, Len(s))>> ELSE <<>>
    ELSE IF s[i] # ESC THEN SplitFrom(s, NextEsc(s, i), start)
    ELSE IF MatchEnd(s, i) > 0
    THEN (IF start < i THEN <<SubSeq(s, start, i - 1)>> ELSE <<>>)
         \o <<SubSeq(s, i, MatchEnd(s, i))>>
         \o SplitFrom(s, MatchEnd(s, i) + 1, MatchEnd(s, i) + 1)
    ELSE SplitFrom(s, i + 1, start)

Split(chunk) == SplitFrom(chunk, 1, 1)

(***************************************************************************)
(* VT100Lite                                                               *)
(***************************************************************************)
\* "\n[LOG: Entered Interactive Mode]"
EnteredMarker ==
    <<LF, "[", "L", "O", "G", ":", " ", "E", "n", "t", "e", "r", "e", "d", " ",
      "I", "n", "t", "e", "r", "a", "c", "t", "i", "v", "e", " ",
      "M", "o", "d", "e", "]">>

\* "\n[LOG: Exited Interactive Mode]"
ExitedMarker ==
    <<LF, "[", "L", "O", "G", ":", " ", "E", "x", "i", "t", "e", "d", " ",
      "I", "n", "t", "e", "r", "a", "c", "t", "i", "v", "e", " ",
      "M", "o", "d", "e", "]">>

AltEnter1049 == <<ESC, "[", "?", "1", "0", "4", "9", "h">>
AltEnter47 == <<ESC, "[", "?", "4", "7", "h">>
AltExit1049 == <<ESC, "[", "?", "1", "0", "4", "9", "l">>
AltExit47 == <<ESC, "[", "?", "4", "7", "l">>
PasteOn == <<ESC, "[", "?", "2", "0", "0", "4", "h">>
PasteOff == <<ESC, "[", "?", "2", "0", "0", "4", "l">>

\* VT100Lite.__init__
NewVT ==
    [cursor_x |-> 0, buffer |-> <<>>, in_alt_screen |-> FALSE,
     bracketed_paste_mode |-> FALSE, last_logged_line |-> <<>>]

\* an emulator state paired with the lines emitted so far
St(v, ls) == [vt |-> v, lines |-> ls]

\* a completed line appended when non-empty, then buffer and cursor reset
EmitLine(st, line_str) ==
    St([st.vt EXCEPT !.buffer = <<>>, !.cursor_x = 0],
       IF line_str # <<>> THEN Append(st.lines, line_str) ELSE st.lines)

\* variant: the buffer emitted without stripping trailing whitespace
FlushLine_NoStrip(st) == EmitLine(st, st.vt.buffer)

\* "".join(self.buffer).rstrip() emitted as a completed line
FlushLine(st) == EmitLine(st, RStrip(st.vt.buffer))

\* the erase mode of a sequence ending in K: 0 unless a parameter parses
EraseMode(seq) ==
    IF Len(seq) > 3 THEN IntOrZero(IntParse(Slice(seq, 2, Len(seq) - 1))) ELSE 0

\* variant: every mode other than 0 clears the line
EraseWithMode_NonZeroClears(st, mode) ==
    IF mode = 0
    THEN St([st.vt EXCEPT !.buffer = Slice(st.vt.buffer, 0, st.vt.cursor_x)],
            st.lines)
    ELSE St([st.vt EXCEPT !.buffer = <<>>, !.cursor_x = 0], st.lines)

EraseWithMode(st, mode) ==
    IF mode = 0
    THEN St([st.vt EXCEPT !.buffer = Slice(st.vt.buffer, 0, st.vt.cursor_x)],
            st.lines)
    ELSE IF mode = 2
    THEN St([st.vt EXCEPT !.buffer = <<>>, !.cursor_x = 0], st.lines)
    ELSE st

\* the erase-line branch of _handle_csi
EraseLine(st, seq) == EraseWithMode(st, EraseMode(seq))

\* variant: the column is not clamped at 0
CursorToParsed_NoClamp(st, p) ==
    IF p.ok THEN St([st.vt EXCEPT !.cursor_x = p.val - 1], st.lines)
    ELSE st

CursorToParsed(st, p) ==
    IF p.ok THEN St([st.vt EXCEPT !.cursor_x = Max(0, p.val - 1)], st.lines)
    ELSE st

\* the cursor-horizontal branch of _handle_csi
CursorHorizontal(st, seq) == CursorToParsed(st, IntParse(Slice(seq, 2, Len(seq) - 1)))

\* variant: only the ?1049 forms toggle the alternate screen
HandleCsi_Only1049(st, seq) ==
    IF seq = AltEnter1049
    THEN St([st.vt EXCEPT !.in_alt_screen = TRUE], Append(st.lines, EnteredMarker))
    ELSE IF seq = AltExit1049
    THEN St([st.vt EXCEPT !.in_alt_screen = FALSE], Append(st.lines, ExitedMarker))
    ELSE IF seq = PasteOn
    THEN St([st.vt EXCEPT !.bracketed_paste_mode = TRUE], st.lines)
    ELSE IF seq = PasteOff
    THEN St([st.vt EXCEPT !.bracketed_paste_mode = FALSE], st.lines)
    ELSE IF EndsWith(seq, "K") THEN EraseLine(st, seq)
    ELSE IF EndsWith(seq, "G") \/ EndsWith(seq, BACKTICK) THEN CursorHorizontal(st, seq)
    ELSE IF /\ (EndsWith(seq, "A") \/ EndsWith(seq, "B") \/ EndsWith(seq, "H")
                  \/ EndsWith(seq, "f"))
            /\ st.vt.in_alt_screen
    THEN FlushLine(st)
    ELSE st

\* variant: a cursor move completes the line in either mode
HandleCsi_MoveAlwaysFlush(st, seq) ==
    IF seq \in {AltEnter1049, AltEnter47}
    THEN St([st.vt EXCEPT !.in_alt_screen = TRUE], Append(st.lines, EnteredMarker))
    ELSE IF seq \in {AltExit1049, AltExit47}
    THEN St([st.vt EXCEPT !.in_alt_screen = FALSE], Append(st.lines, ExitedMarker))
    ELSE IF seq = PasteOn
    THEN St([st.vt EXCEPT !.bracketed_paste_mode = TRUE], st.lines)
    ELSE IF seq = PasteOff
    THEN St([st.vt EXCEPT !.bracketed_paste_mode = FALSE], st.lines)
    ELSE IF EndsWith(seq, "K") THEN EraseLine(st, seq)
    ELSE IF EndsWith(seq, "G") \/ EndsWith(seq, BACKTICK) THEN CursorHorizontal(st, seq)
    ELSE IF \/ EndsWith(seq, "A") \/ EndsWith(seq, "B") \/ EndsWith(seq, "H")
            \/ EndsWith(seq, "f")
    THEN FlushLine(st)
    ELSE st

\* VT100Lite._handle_csi
HandleCsi(st, seq) ==
    IF seq \in {AltEnter1049, AltEnter47}
    THEN St([st.vt EXCEPT !.in_alt_screen = TRUE], Append(st.lines, EnteredMarker))
    ELSE IF seq \in {AltExit1049, AltExit47}
    THEN St([st.vt EXCEPT !.in_alt_screen = FALSE], Append(st.lines, ExitedMarker))
    ELSE IF seq = PasteOn
    THEN St([st.vt EXCEPT !.bracketed_paste_mode = TRUE], st.lines)
    ELSE IF seq = PasteOff
    THEN St([st.vt EXCEPT !.bracketed_paste_mode = FALSE], st.lines)
    ELSE IF EndsWith(seq, "K") THEN EraseLine(st, seq)
    ELSE IF EndsWith(seq, "G") \/ EndsWith(seq, BACKTICK) THEN CursorHorizontal(st, seq)
    ELSE IF /\ (EndsWith(seq, "A") \/ EndsWith(seq, "B") \/ EndsWith(seq, "H")
                  \/ EndsWith(seq, "f"))
            /\ st.vt.in_alt_screen
    THEN FlushLine(st)
    ELSE st

PutChar(v, padded, char) ==
    [v EXCEPT !.buffer = [padded EXCEPT ![v.cursor_x + 1] = char],
              !.cursor_x = v.cursor_x + 1]

\* variant: a write past the end appends without padding
WriteChar_NoPad(v, char) ==
    IF Len(v.buffer) <= v.cursor_x
    THEN [v EXCEPT !.buffer = Append(v.buffer, char), !.cursor_x = v.cursor_x + 1]
    ELSE PutChar(v, v.buffer, char)

\* variant: the character is inserted at the cursor instead of overwriting
WriteChar_Insert(v, char) ==
    [v EXCEPT !.buffer = Slice(v.buffer, 0, v.cursor_x) \o <<char>>
                          \o Slice(v.buffer, v.cursor_x, Len(v.buffer)),
              !.cursor_x = v.cursor_x + 1]

\* the final branch of the character loop of _handle_text
WriteChar(v, char) ==
    PutChar(v,
            IF Len(v.buffer) <= v.cursor_x
            THEN v.buffer \o [i \in 1..(v.cursor_x - Len(v.buffer) + 1) |-> " "]
            ELSE v.buffer,
            char)

\* variant: a carriage return completes the line in either mode
HandleChar_CrAlwaysFlush(st, char) ==
    IF char = CR \/ char = LF THEN FlushLine(st)
    ELSE IF char = BS
    THEN St([st.vt EXCEPT !.cursor_x = Max(0, st.vt.cursor_x - 1)], st.lines)
    ELSE IF char = BEL THEN st
    ELSE St(WriteChar(st.vt, char), st.lines)

\* one iteration of the character loop of _handle_text
HandleChar(st, char) ==
    IF char = CR
    THEN IF st.vt.in_alt_screen THEN FlushLine(st)
         ELSE St([st.vt EXCEPT !.cursor_x = 0], st.lines)
    ELSE IF char = LF THEN FlushLine(st)
    ELSE IF char = BS
    THEN St([st.vt EXCEPT !.cursor_x = Max(0, st.vt.cursor_x - 1)], st.lines)
    ELSE IF char = BEL THEN st
    ELSE St(WriteChar(st.vt, char), st.lines)

\* the rest of the text handled from the state reached so far
RECURSIVE HandleText(_, _)
HandleRest(mid, rest) == IF mid.lines = mid.lines THEN HandleText(mid, rest) ELSE mid

\* VT100Lite._handle_text: the character loop, left to right (the text is
\* halved so that long runs do not nest the evaluation per character)
HandleText(st, text) ==
    IF text = <<>> THEN st
    ELSE IF Len(text) = 1 THEN HandleChar(st, text[1])
    ELSE HandleRest(HandleText(st, SubSeq(text, 1, Len(text) \div 2)),
                    SubSeq(text, Len(text) \div 2 + 1, Len(text)))

\* variant: an OSC part is not skipped but handled as text
HandlePart_OscAsText(st, part) ==
    IF StartsWith(part, <<ESC, "[">>) THEN HandleCsi(st, part)
    ELSE IF StartsWith(part, <<ESC, "]">>) THEN HandleText(st, part)
    ELSE IF StartsWith(part, <<ESC>>) THEN st
    ELSE HandleText(st, part)

\* the dispatch on one part in the loop of process
HandlePart(st, part) ==
    IF StartsWith(part, <<ESC, "[">>) THEN HandleCsi(st, part)
    ELSE IF StartsWith(part, <<ESC, "]">>) THEN st
    ELSE IF StartsWith(part, <<ESC>>) THEN st
    ELSE HandleText(st, part)

RECURSIVE HandleParts(_, _)
HandleParts(st, parts) ==
    IF parts = <<>> THEN st
    ELSE HandleParts(HandlePart(st, parts[1]), Tail(parts))

\* VT100Lite.process: the new emulator state and the completed lines
Process(v, chunk) == HandleParts(St(v, <<>>), Split(chunk))

\* VT100Lite.flush
Flush(v) == IF v.buffer # <<>> THEN <<RStrip(v.buffer)>> ELSE <<>>

(***************************************************************************)
(* main: decoding, the chunk boundary buffer and the line logger           *)
(***************************************************************************)
\* the trailing-escape lookback window of the chunk boundary buffer
Lookback == 256

\* o.decode('utf-8', errors='replace'): xC3 xA9 is one character, a lead
\* byte without its continuation and a stray continuation byte are replaced
RECURSIVE Decode(_)
Decode(bytes) ==
    IF bytes = <<>> THEN <<>>
    ELSE IF bytes[1] = xC3
         THEN IF Len(bytes) >= 2 /\ bytes[2] = xA9
              THEN <<E_ACUTE>> \o Decode(SubSeq(bytes, 3, Len(bytes)))
              ELSE <<REPL>> \o Decode(Tail(bytes))
    ELSE IF bytes[1] = xA9 THEN <<REPL>> \o Decode(Tail(bytes))
    ELSE <<bytes[1]>> \o Decode(Tail(bytes))

\* variant: a trailing escape is kept pending however far back it is
BoundaryAt_NoTimeout(buf, last_esc) ==
    IF last_esc = -1 THEN [to_process |-> buf, pending |-> <<>>]
    ELSE [to_process |-> Slice(buf, 0, last_esc),
          pending |-> Slice(buf, last_esc, Len(buf))]

BoundaryAt(buf, last_esc) ==
    IF last_esc = -1 THEN [to_process |-> buf, pending |-> <<>>]
    ELSE IF Len(buf) - last_esc > Lookback
    THEN [to_process |-> buf, pending |-> <<>>]
    ELSE [to_process |-> Slice(buf, 0, last_esc),
          pending |-> Slice(buf, last_esc, Len(buf))]

\* the chunk boundary buffer: what is released to the emulator and what is
\* kept pending once text is appended to clean_log_buffer
BoundaryBuffer(pending, text) == BoundaryAt(pending \o text, RFindEsc(pending \o text))

FeedResult(fs, b, res) ==
    [vt |-> res.vt, pending |-> b.pending, lines |-> fs.lines \o res.lines,
     fed |-> b.to_process # <<>>, released |-> fs.released \o b.to_process]

FeedReleased(fs, b) ==
    IF b.to_process # <<>> THEN FeedResult(fs, b, Process(fs.vt, b.to_process))
    ELSE FeedResult(fs, b, St(fs.vt, <<>>))

\* one pass of decoded text through the boundary buffer and the emulator
FeedStep(fs, text) == FeedReleased(fs, BoundaryBuffer(fs.pending, text))

\* variant: the chunk never reaches the raw file
RawFileWrite_Lost(log, chunk) == log

\* raw_file.write(o); raw_file.flush()
RawFileWrite(log, chunk) == log \o chunk

\* the deduplicating write loop over the completed lines of one chunk;
\* a record is the line text (the timestamp prefix is the clock's)
RECURSIVE LogLoop(_, _, _)
LogLoop(last, log, ls) ==
    IF ls = <<>> THEN [last |-> last, log |-> log]
    ELSE IF <<ls[1]>> = last THEN LogLoop(last, log, Tail(ls))
    ELSE LogLoop(<<ls[1]>>, Append(log, ls[1]), Tail(ls))

TrailingOf(v, rem) ==
    [vt |-> rem.vt, lines |-> Flush(v) \o rem.lines \o Flush(rem.vt)]

\* the lines the cleanup block writes: flush, the pending remainder
\* processed, flush again
TrailingLines(v, pending) ==
    IF pending # <<>> THEN TrailingOf(v, Process(v, pending))
    ELSE TrailingOf(v, St(v, <<>>))

RECURSIVE Flatten(_)
Flatten(ss) == IF ss = <<>> THEN <<>> ELSE ss[1] \o Flatten(Tail(ss))

(***************************************************************************)
(* Bounds and the inputs drawn from them                                   *)
(***************************************************************************)
MaxReads == 3
MaxPieces == 2
MaxBuf == 2
MaxCursor == 2
MaxStreamPieces == 3
NearCut == 2

SeqsUpTo(S, n) == UNION {[1..k -> S] : k \in 0..n}

\* byte chunks the pseudo-terminal delivers in the session model
PtyChunks ==
    {<<"a">>, <<"a", LF>>, <<" ">>, <<ESC>>, <<"[", "K", "b", LF>>,
     <<xC3>>, <<xA9, LF>>}

\* fragments the chunks handed to the emulator are put together from
VTPieces ==
    {<<"a">>, <<" ">>, <<LF>>, <<CR>>, <<BS>>, <<ESC>>, <<"Z">>, <<"[">>,
     <<"a", LF>>, <<"b", " ", LF>>,
     AltEnter1049, AltEnter47, AltExit1049, AltExit47, PasteOn,
     <<ESC, "[", "2", "K">>, <<ESC, "[", "3", "G">>,
     <<ESC, "[", "1", ";", "1", "H">>, <<ESC, "]", "0", ";", "t", BEL>>,
     <<ESC, "=">>}

\* whole chunks of the worked examples
FooBarChunk == <<"f", "o", "o", BS, BS, "b", "a", "r", LF>>

HelloChunk == <<"h", "e", "l", "l", "o", CR, LF>>

MenuChunk ==
    AltEnter1049 \o <<"m", "e", "n", "u">> \o <<ESC, "[", "1", ";", "1", "H">>

\* cursor-move sequences, one per final character of the branch
CursorMoves ==
    {<<ESC, "[", "A">>, <<ESC, "[", "2", "B">>, <<ESC, "[", "1", ";", "1", "H">>,
     <<ESC, "[", "H">>, <<ESC, "[", "2", ";", "3", "f">>}

\* erase-line sequences: parameter absent, 0, 2, padded 2, 1, 22, and two
\* that int() refuses
EraseSeqs ==
    {<<ESC, "[", "K">>, <<ESC, "[", "0", "K">>, <<ESC, "[", "2", "K">>,
     <<ESC, "[", "0", "2", "K">>, <<ESC, "[", "1", "K">>,
     <<ESC, "[", "2", "2", "K">>, <<ESC, "[", "?", "K">>,
     <<ESC, "[", "2", ";", "K">>}

\* recognized sequences without a branch of their own: two OSC forms, two
\* two-character escapes, a colour sequence, a private-mode sequence
SilentSeqs ==
    {<<ESC, "]", "0", ";", "t", BEL>>, <<ESC, "]", "2", ";", "t", ESC, BSLASH>>,
     <<ESC, "=">>, <<ESC, "M">>, <<ESC, "[", "1", ";", "3", "1", "m">>,
     <<ESC, "[", "?", "2", "5", "h">>}

\* text with silent sequences and a bracketed-paste switch inside it
SilentInTextChunk ==
    <<"a">> \o <<ESC, "[", "1", ";", "3", "1", "m">> \o <<"b">>
    \o <<ESC, "]", "0", ";", "t", BEL>> \o PasteOn \o <<ESC, "=">>
    \o <<"c", LF>>

\* cursor-horizontal sequences: columns 0, 1, 3 and 12, the backtick form,
\* parameter absent, and two that int() refuses
ColumnSeqs ==
    {<<ESC, "[", "0", "G">>, <<ESC, "[", "1", "G">>, <<ESC, "[", "3", "G">>,
     <<ESC, "[", "1", "2", "G">>, <<ESC, "[", "2", BACKTICK>>,
     <<ESC, "[", "G">>, <<ESC, "[", "?", "G">>, <<ESC, "[", "1", ";", "2", "G">>}

VTExamples ==
    {FooBarChunk, HelloChunk, MenuChunk, SilentInTextChunk, PasteOff}
    \cup CursorMoves \cup EraseSeqs \cup SilentSeqs \cup ColumnSeqs

VTChunks == {Flatten(ps) : ps \in SeqsUpTo(VTPieces, MaxPieces)} \cup VTExamples

\* emulator states a session can be in when a call is made
VTStates ==
    {[cursor_x |-> c, buffer |-> b, in_alt_screen |-> a,
      bracketed_paste_mode |-> p, last_logged_line |-> <<>>] :
        c \in 0..MaxCursor, b \in SeqsUpTo({"a", " "}, MaxBuf),
        a \in BOOLEAN, p \in BOOLEAN}

\* a run of plain text one longer than the lookback window
LongRun == [i \in 1..(Lookback + 1) |-> "a"]

\* fragments the split streams are put together from
SplitPieces == {<<"a">>, <<LF>>, <<ESC>>, <<"Z">>, <<"[">>, <<"K">>, LongRun}

RECURSIVE Boundaries(_, _)
Boundaries(ps, at) ==
    IF ps = <<>> THEN {at} ELSE {at} \cup Boundaries(Tail(ps), at + Len(ps[1]))

\* the split offsets tried: every offset within NearCut of a fragment edge
Cuts(ps) ==
    {c \in 0..Len(Flatten(ps)) :
        \E b \in Boundaries(ps, 0) : c - b <= NearCut /\ b - c <= NearCut}

(***************************************************************************)
(* State                                                                   *)
(***************************************************************************)
VARIABLES
    pc,                \* position of main
    vt,                \* the VT100Lite instance
    clean_log_buffer,  \* pending text of the chunk boundary buffer
    clb_bound,         \* whether the local clean_log_buffer is assigned yet
    old_tty,           \* "saved" or "none"
    tty_mode,          \* mode of the controlling terminal
    raw_file,          \* "unopened", "open" or "closed"
    clean_file,
    shell_spawned,
    r,                 \* streams select reported readable
    o,                 \* chunk read from the pseudo-terminal
    lines,             \* completed lines of the current chunk
    raw_log,           \* bytes in the raw log
    clean_log,         \* records in the clean log
    reads,             \* history: non-empty chunks read from the pseudo-terminal
    handed,            \* history: bytes handed to the boundary buffer
    events,            \* history: stream events and failures so far
    call,              \* one emulator call (emulator specification)
    feed               \* one stream fed whole and split (boundary specification)

vars ==
    <<pc, vt, clean_log_buffer, clb_bound, old_tty, tty_mode, raw_file,
      clean_file, shell_spawned, r, o, lines, raw_log, clean_log, reads,
      handed, events, call, feed>>

sessionVars ==
    <<pc, vt, clean_log_buffer, clb_bound, old_tty, tty_mode, raw_file,
      clean_file, shell_spawned, r, o, lines, raw_log, clean_log, reads,
      handed, events>>

NoCall == [op |-> "none"]
NoFeed == [phase |-> "none"]

SessionInit(start) ==
    /\ pc = start
    /\ clean_log_buffer = <<>>
    /\ clb_bound = FALSE
    /\ old_tty = "none"
    /\ tty_mode = "original"
    /\ raw_file = "unopened"
    /\ clean_file = "unopened"
    /\ shell_spawned = FALSE
    /\ r = {}
    /\ o = <<>>
    /\ lines = <<>>
    /\ raw_log = <<>>
    /\ clean_log = <<>>
    /\ reads = <<>>
    /\ handed = <<>>
    /\ events = {}

Init ==
    /\ SessionInit("makedirs")
    /\ vt = NewVT
    /\ call = NoCall
    /\ feed = NoFeed

(***************************************************************************)
(* main: startup                                                           *)
(***************************************************************************)
MakeDirs(outcome) ==
    /\ pc = "makedirs"
    /\ pc' = IF outcome = "error" THEN "exit" ELSE "open_logs"
    /\ events' = IF outcome = "error"
                  THEN events \cup {"makedirs_error", "error_reported"}
                  ELSE events
    /\ UNCHANGED <<vt, clean_log_buffer, clb_bound, old_tty, tty_mode, raw_file,
                   clean_file, shell_spawned, r, o, lines, raw_log, clean_log,
                   reads, handed, call, feed>>

\* variant: a failed open does not return
AfterOpenLogs_GoOn(outcome) == "tcgetattr"

\* where the try block around the two open calls leaves control: the
\* handler prints the error and returns
AfterOpenLogs(outcome) == IF outcome = "ok" THEN "tcgetattr" ELSE "exit"

OpenLogs(outcome) ==
    /\ pc = "open_logs"
    /\ raw_file' = IF outcome = "raw_error" THEN raw_file ELSE "open"
    /\ clean_file' = IF outcome = "ok" THEN "open" ELSE clean_file
    /\ pc' = AfterOpenLogs(outcome)
    /\ events' = IF outcome = "ok"
                  THEN events
                  ELSE events \cup {"open_error", "error_reported"}
    /\ UNCHANGED <<vt, clean_log_buffer, clb_bound, old_tty, tty_mode,
                   shell_spawned, r, o, lines, raw_log, clean_log, reads,
                   handed, call, feed>>

SaveTty(outcome) ==
    /\ pc = "tcgetattr"
    /\ old_tty' = IF outcome = "ok" THEN "saved" ELSE "none"
    /\ pc' = "fork"
    /\ UNCHANGED <<vt, clean_log_buffer, clb_bound, tty_mode, raw_file,
                   clean_file, shell_spawned, r, o, lines, raw_log, clean_log,
                   reads, handed, events, call, feed>>

Fork ==
    /\ pc = "fork"
    /\ shell_spawned' = TRUE
    /\ vt' = NewVT
    /\ pc' = "setraw"
    /\ UNCHANGED <<clean_log_buffer, clb_bound, old_tty, tty_mode, raw_file,
                   clean_file, r, o, lines, raw_log, clean_log, reads, handed,
                   events, call, feed>>

\* tty.setraw acts on the descriptor tcgetattr was asked about: it succeeds
\* only on a terminal whose settings could be read
SetRaw(outcome) ==
    /\ pc = "setraw"
    /\ outcome = "ok" => old_tty = "saved"
    /\ IF outcome = "ok"
       THEN /\ tty_mode' = "raw"
            /\ clean_log_buffer' = <<>>
            /\ clb_bound' = TRUE
            /\ pc' = "select"
            /\ events' = events \cup {"raw_mode"}
       ELSE /\ pc' = "finally"
            /\ events' = events \cup {"setraw_error"}
            /\ UNCHANGED <<tty_mode, clean_log_buffer, clb_bound>>
    /\ UNCHANGED <<vt, old_tty, raw_file, clean_file, shell_spawned, r, o, lines,
                   raw_log, clean_log, reads, handed, call, feed>>

(***************************************************************************)
(* main: the multiplexing loop                                             *)
(***************************************************************************)
Select(ready) ==
    /\ pc = "select"
    /\ ready # {}
    /\ r' = ready
    /\ pc' = IF "stdin" \in ready THEN "stdin" ELSE "master_fd"
    /\ UNCHANGED <<vt, clean_log_buffer, clb_bound, old_tty, tty_mode, raw_file,
                   clean_file, shell_spawned, o, lines, raw_log, clean_log,
                   reads, handed, events, call, feed>>

\* variant: an empty read of stdin does not break the loop
AfterStdin_ContinueOnEof(outcome, ready) ==
    IF outcome \in {"data", "eof"}
    THEN IF "master_fd" \in ready THEN "master_fd" ELSE "select"
    ELSE "finally"

\* where the stdin branch leaves control: an empty or failed read breaks,
\* a failed write to the pseudo-terminal raises OSError
AfterStdin(outcome, ready) ==
    IF outcome = "data"
    THEN IF "master_fd" \in ready THEN "master_fd" ELSE "select"
    ELSE "finally"

\* the branch "if sys.stdin in r"
StdinReady(outcome) ==
    /\ pc = "stdin"
    /\ pc' = AfterStdin(outcome, r)
    /\ events' = IF outcome = "data" THEN events ELSE events \cup {"stdin_" \o outcome}
    /\ UNCHANGED <<vt, clean_log_buffer, clb_bound, old_tty, tty_mode, raw_file,
                   clean_file, shell_spawned, r, o, lines, raw_log, clean_log,
                   reads, handed, call, feed>>

\* os.read(master_fd, 10240) delivering a non-empty chunk
MasterRead(chunk) ==
    /\ pc = "master_fd"
    /\ Len(reads) < MaxReads
    /\ o' = chunk
    /\ reads' = Append(reads, chunk)
    /\ pc' = "forward"
    /\ UNCHANGED <<vt, clean_log_buffer, clb_bound, old_tty, tty_mode, raw_file,
                   clean_file, shell_spawned, r, lines, raw_log, clean_log,
                   handed, events, call, feed>>

\* os.read(master_fd, 10240) returning nothing or raising OSError
MasterEnd(outcome) ==
    /\ pc = "master_fd"
    /\ pc' = "finally"
    /\ events' = events \cup {"pty_" \o outcome}
    /\ UNCHANGED <<vt, clean_log_buffer, clb_bound, old_tty, tty_mode, raw_file,
                   clean_file, shell_spawned, r, o, lines, raw_log, clean_log,
                   reads, handed, call, feed>>

\* variant: a failed forwarding write skips the rest of the iteration
AfterForward_SkipOnError(outcome) == IF outcome = "error" THEN "select" ELSE "raw_write"

\* where control goes after os.write(sys.stdout.fileno(), o): the OSError
\* is swallowed, the raw-log write follows either way
AfterForward(outcome) == "raw_write"

Forward(outcome) ==
    /\ pc = "forward"
    /\ pc' = AfterForward(outcome)
    /\ events' = IF outcome = "ok" THEN events ELSE events \cup {"forward_error"}
    /\ UNCHANGED <<vt, clean_log_buffer, clb_bound, old_tty, tty_mode, raw_file,
                   clean_file, shell_spawned, r, o, lines, raw_log, clean_log,
                   reads, handed, call, feed>>

RawWrite ==
    /\ pc = "raw_write"
    /\ raw_log' = RawFileWrite(raw_log, o)
    /\ pc' = "pipeline"
    /\ UNCHANGED <<vt, clean_log_buffer, clb_bound, old_tty, tty_mode, raw_file,
                   clean_file, shell_spawned, r, o, lines, clean_log, reads,
                   handed, events, call, feed>>

PipelineResult(fs) ==
    /\ vt' = fs.vt
    /\ clean_log_buffer' = fs.pending
    /\ lines' = fs.lines
    /\ pc' = IF fs.fed THEN "log_lines" ELSE "select"

\* decode, boundary buffer, vt.process
Pipeline ==
    /\ pc = "pipeline"
    /\ PipelineResult(FeedStep([vt |-> vt, pending |-> clean_log_buffer,
                                lines |-> <<>>, released |-> <<>>], Decode(o)))
    /\ handed' = handed \o o
    /\ UNCHANGED <<clb_bound, old_tty, tty_mode, raw_file, clean_file,
                   shell_spawned, r, o, raw_log, clean_log, reads, events,
                   call, feed>>

\* the write loop over lines, every clean_file.write succeeding
LogLines ==
    /\ pc = "log_lines"
    /\ LET res == LogLoop(vt.last_logged_line, clean_log, lines)
       IN  /\ vt' = [vt EXCEPT !.last_logged_line = res.last]
           /\ clean_log' = res.log
    /\ lines' = <<>>
    /\ pc' = "select"
    /\ UNCHANGED <<clean_log_buffer, clb_bound, old_tty, tty_mode, raw_file,
                   clean_file, shell_spawned, r, o, raw_log, reads, handed,
                   events, call, feed>>

\* the write loop over lines, clean_file.write raising OSError at line k
LogLinesFail(k) ==
    /\ pc = "log_lines"
    /\ k \in 1..Len(lines)
    /\ LET res == LogLoop(vt.last_logged_line, clean_log, SubSeq(lines, 1, k - 1))
       IN  /\ <<lines[k]>> # res.last
           /\ vt' = [vt EXCEPT !.last_logged_line = <<lines[k]>>]
           /\ clean_log' = res.log
    /\ lines' = <<>>
    /\ events' = events \cup {"clean_write_error"}
    /\ pc' = "finally"
    /\ UNCHANGED <<clean_log_buffer, clb_bound, old_tty, tty_mode, raw_file,
                   clean_file, shell_spawned, r, o, raw_log, reads, handed,
                   call, feed>>

(***************************************************************************)
(* main: the cleanup block                                                 *)
(***************************************************************************)
\* termios.tcsetattr(sys.stdin, termios.TCSADRAIN, old_tty) under "if old_tty"
RestoreTty(saved, mode) == IF saved = "saved" THEN "original" ELSE mode

\* the cleanup block reached before clean_log_buffer was ever assigned:
\* reading it raises, nothing after that line runs
CleanupUnbound ==
    /\ pc = "finally"
    /\ ~clb_bound
    /\ tty_mode' = RestoreTty(old_tty, tty_mode)
    /\ pc' = "raised"
    /\ UNCHANGED <<vt, clean_log_buffer, clb_bound, old_tty, raw_file, clean_file,
                   shell_spawned, r, o, lines, raw_log, clean_log, reads,
                   handed, events, call, feed>>

CleanupWrites(t) ==
    /\ vt' = t.vt
    /\ clean_log' = clean_log \o t.lines

\* the cleanup block, every write succeeding
Cleanup ==
    /\ pc = "finally"
    /\ clb_bound
    /\ tty_mode' = RestoreTty(old_tty, tty_mode)
    /\ CleanupWrites(TrailingLines(vt, clean_log_buffer))
    /\ raw_file' = "closed"
    /\ clean_file' = "closed"
    /\ pc' = "done"
    /\ UNCHANGED <<clean_log_buffer, clb_bound, old_tty, shell_spawned, r, o,
                   lines, raw_log, reads, handed, events, call, feed>>

CleanupWritesFail(t) ==
    /\ vt' = t.vt
    /\ \E k \in 1..Len(t.lines) : clean_log' = clean_log \o SubSeq(t.lines, 1, k - 1)

\* the cleanup block, clean_file.write raising at one of the trailing lines
CleanupFail ==
    /\ pc = "finally"
    /\ clb_bound
    /\ tty_mode' = RestoreTty(old_tty, tty_mode)
    /\ CleanupWritesFail(TrailingLines(vt, clean_log_buffer))
    /\ events' = events \cup {"final_write_error"}
    /\ pc' = "raised"
    /\ UNCHANGED <<clean_log_buffer, clb_bound, old_tty, raw_file, clean_file,
                   shell_spawned, r, o, lines, raw_log, reads, handed, call, feed>>

Next ==
    \/ \E outcome \in {"exists", "created", "error"} : MakeDirs(outcome)
    \/ \E outcome \in {"ok", "raw_error", "clean_error"} : OpenLogs(outcome)
    \/ \E outcome \in {"ok", "error"} : SaveTty(outcome)
    \/ Fork
    \/ \E outcome \in {"ok", "error"} : SetRaw(outcome)
    \/ \E ready \in SUBSET {"stdin", "master_fd"} : Select(ready)
    \/ \E outcome \in {"data", "eof", "read_error", "write_error"} : StdinReady(outcome)
    \/ \E chunk \in PtyChunks : MasterRead(chunk)
    \/ \E outcome \in {"eof", "read_error"} : MasterEnd(outcome)
    \/ \E outcome \in {"ok", "error"} : Forward(outcome)
    \/ RawWrite
    \/ Pipeline
    \/ LogLines
    \/ \E k \in 1..Len(lines) : LogLinesFail(k)
    \/ CleanupUnbound
    \/ Cleanup
    \/ CleanupFail

Spec == Init /\ [][Next]_vars

(***************************************************************************)
(* The emulator on its own: one call of process or flush in any state      *)
(***************************************************************************)
InitVT ==
    /\ SessionInit("emulator")
    /\ vt \in VTStates
    /\ call = NoCall
    /\ feed = NoFeed

ProcessCall(res, chunk) ==
    /\ vt' = res.vt
    /\ call' = [op |-> "process", pre |-> vt, arg |-> chunk, out |-> res.lines]

VTProcess ==
    /\ pc = "emulator"
    /\ call.op = "none"
    /\ \E chunk \in VTChunks : ProcessCall(Process(vt, chunk), chunk)
    /\ UNCHANGED <<pc, clean_log_buffer, clb_bound, old_tty, tty_mode, raw_file,
                   clean_file, shell_spawned, r, o, lines, raw_log, clean_log,
                   reads, handed, events, feed>>

VTFlush ==
    /\ pc = "emulator"
    /\ call.op = "none"
    /\ call' = [op |-> "flush", pre |-> vt, arg |-> <<>>, out |-> Flush(vt)]
    /\ UNCHANGED <<pc, vt, clean_log_buffer, clb_bound, old_tty, tty_mode,
                   raw_file, clean_file, shell_spawned, r, o, lines, raw_log,
                   clean_log, reads, handed, events, feed>>

NextVT ==
    \/ VTProcess
    \/ VTFlush

SpecVT == InitVT /\ [][NextVT]_vars

(***************************************************************************)
(* The boundary buffer on its own: one stream fed whole and fed in two     *)
(* chunks, each from a fresh emulator and an empty pending string          *)
(***************************************************************************)
FreshFeed ==
    [vt |-> NewVT, pending |-> <<>>, lines |-> <<>>, fed |-> FALSE,
     released |-> <<>>]

SplitInputs ==
    UNION {{[phase |-> "feeding", stream |-> Flatten(ps), cut |-> c,
             whole_done |-> FALSE, chunks_fed |-> 0,
             whole |-> FreshFeed, split |-> FreshFeed] : c \in Cuts(ps)} :
           ps \in SeqsUpTo(SplitPieces, MaxStreamPieces)}

InitSplit ==
    /\ SessionInit("boundary")
    /\ vt = NewVT
    /\ call = NoCall
    /\ feed \in SplitInputs

FeedWhole ==
    /\ pc = "boundary"
    /\ ~feed.whole_done
    /\ feed' = [feed EXCEPT !.whole = FeedStep(feed.whole, feed.stream),
                            !.whole_done = TRUE]
    /\ UNCHANGED <<sessionVars, call>>

\* the two feeds share nothing: the split feed is run after the whole one
FeedFirst ==
    /\ pc = "boundary"
    /\ feed.whole_done
    /\ feed.chunks_fed = 0
    /\ feed' = [feed EXCEPT !.split = FeedStep(feed.split,
                                               Slice(feed.stream, 0, feed.cut)),
                            !.chunks_fed = 1]
    /\ UNCHANGED <<sessionVars, call>>

FeedSecond ==
    /\ pc = "boundary"
    /\ feed.chunks_fed = 1
    /\ feed' = [feed EXCEPT !.split = FeedStep(feed.split,
                                               Slice(feed.stream, feed.cut,
                                                     Len(feed.stream))),
                            !.chunks_fed = 2]
    /\ UNCHANGED <<sessionVars, call>>

NextSplit == FeedWhole \/ FeedFirst \/ FeedSecond

SpecSplit == InitSplit /\ [][NextSplit]_vars

(***************************************************************************)
(* Properties                                                              *)
(***************************************************************************)
IsPrefix(a, b) == Len(a) <= Len(b) /\ SubSeq(b, 1, Len(a)) = a

Contains(s, t) ==
    \E i \in 1..(Len(s) - Len(t) + 1) : SubSeq(s, i, i + Len(t) - 1) = t

SameOutcome(a, b) == a.vt = b.vt /\ a.pending = b.pending /\ a.lines = b.lines

\* the split offset is at most Lookback characters past the last escape
\* character before it
SplitWithinLookback(stream, cut) ==
    \/ RFindEsc(Slice(stream, 0, cut)) = -1
    \/ cut - RFindEsc(Slice(stream, 0, cut)) <= Lookback

\* C1: a stream fed as two chunks, the split at most 256 characters past an
\* escape character, gives the same completed lines, emulator state and
\* pending string as the stream fed as one chunk.
C1_SplitGivesSameLines ==
    (/\ feed.phase = "feeding"
     /\ feed.whole_done
     /\ feed.chunks_fed = 2
     /\ SplitWithinLookback(feed.stream, feed.cut))
    => SameOutcome(feed.whole, feed.split)

\* C2: no two adjacent records of the clean log carry the same line text,
\* records of the final flush included.
C2_NoAdjacentDuplicateRecords ==
    \A i \in 1..(Len(clean_log) - 1) : clean_log[i] # clean_log[i + 1]

\* C3: once a chunk read from the pseudo-terminal is past its raw-log write,
\* the raw log is the concatenation, in order, of every chunk read so far,
\* whether or not forwarding a chunk to the real terminal failed.
C3_RawLogIsEveryChunkRead ==
    pc \notin {"forward", "raw_write"} => raw_log = Flatten(reads)

C3_Witness ==
    /\ pc = "select"
    /\ "forward_error" \in events
    /\ Len(reads) >= 2
    /\ clean_log # <<>>
    /\ raw_log = Flatten(reads)

\* C4: what has been handed to the boundary buffer is always a prefix of the
\* raw log, and a chunk about to be handed over is already the end of the
\* raw log: the raw log is never behind the clean log.
C4_RawLogNeverBehind ==
    /\ IsPrefix(handed, raw_log)
    /\ pc = "pipeline" => raw_log = handed \o o
    /\ pc = "log_lines" => raw_log = handed

C4_Witness ==
    /\ pc = "log_lines"
    /\ lines # <<>>
    /\ Len(reads) >= 2
    /\ raw_log = handed

\* the chunk has an escape character and none of them starts a CSI, OSC or
\* two-character form
OnlyUnknownEscapes(chunk) ==
    /\ EscPositions(chunk) # {}
    /\ \A i \in EscPositions(chunk) : MatchEnd(chunk, i) = 0

WithoutEscapes(chunk) == SelectSeq(chunk, LAMBDA c : c # ESC)

\* C5: escape characters that start no recognized form are dropped by
\* themselves: the chunk has the effect of its other characters handled as
\* ordinary text.
C5_UnknownEscapeDroppedAlone ==
    (call.op = "process" /\ OnlyUnknownEscapes(call.arg))
    => St(vt, call.out) = HandleText(St(call.pre, <<>>), WithoutEscapes(call.arg))

\* the text segments a line feed ends, in order
RECURSIVE SegmentsFrom(_, _)
SegmentsFrom(text, cur) ==
    IF text = <<>> THEN <<>>
    ELSE IF text[1] = LF THEN <<cur>> \o SegmentsFrom(Tail(text), <<>>)
    ELSE SegmentsFrom(Tail(text), Append(cur, text[1]))

Segments(text) == SegmentsFrom(text, <<>>)

Stripped(segs) == [i \in 1..Len(segs) |-> RStrip(segs[i])]

PlainTextAndFeeds(text) ==
    \A i \in 1..Len(text) : text[i] \notin {ESC, CR, BS, BEL}

\* C6 as stated: from an empty buffer in normal mode, plain text and line
\* feeds emit the segments between line feeds, each stripped of trailing
\* whitespace, in order.
C6_LinesAreSegments ==
    (/\ call.op = "process"
     /\ call.pre.buffer = <<>>
     /\ ~call.pre.in_alt_screen
     /\ PlainTextAndFeeds(call.arg))
    => call.out = Stripped(Segments(call.arg))

\* C6 amended: from an empty buffer with the cursor at column 0 in normal
\* mode, plain text and line feeds emit the segments ended by a line feed,
\* each stripped of trailing whitespace, those that are empty once stripped
\* left out, in order.
C6_LinesAreNonEmptySegments ==
    (/\ call.op = "process"
     /\ call.pre.buffer = <<>>
     /\ call.pre.cursor_x = 0
     /\ ~call.pre.in_alt_screen
     /\ PlainTextAndFeeds(call.arg))
    => call.out = SelectSeq(Stripped(Segments(call.arg)), LAMBDA l : l # <<>>)

C6_Witness ==
    /\ call.op = "process"
    /\ call.pre.buffer = <<>>
    /\ call.pre.cursor_x = 0
    /\ ~call.pre.in_alt_screen
    /\ call.arg = <<"a", LF, "b", " ", LF>>
    /\ call.out = <<<<"a">>, <<"b">>>>

\* "[LOG: Entered Interactive Mode]"
EnteredText ==
    <<"[", "L", "O", "G", ":", " ", "E", "n", "t", "e", "r", "e", "d", " ",
      "I", "n", "t", "e", "r", "a", "c", "t", "i", "v", "e", " ",
      "M", "o", "d", "e", "]">>

\* "[LOG: Exited Interactive Mode]"
ExitedText ==
    <<"[", "L", "O", "G", ":", " ", "E", "x", "i", "t", "e", "d", " ",
      "I", "n", "t", "e", "r", "a", "c", "t", "i", "v", "e", " ",
      "M", "o", "d", "e", "]">>

\* the alternate-screen flag changes only on a chunk holding the matching
\* enter or exit sequence
AltFlagChangesOnlyOnToggle ==
    (call.op # "none" /\ vt.in_alt_screen # call.pre.in_alt_screen)
    => IF vt.in_alt_screen
       THEN Contains(call.arg, AltEnter1049) \/ Contains(call.arg, AltEnter47)
       ELSE Contains(call.arg, AltExit1049) \/ Contains(call.arg, AltExit47)

AltToggleEmits(entered, exited) ==
    /\ (call.op = "process" /\ call.arg \in {AltEnter1049, AltEnter47})
       => (vt.in_alt_screen /\ call.out = <<entered>>)
    /\ (call.op = "process" /\ call.arg \in {AltExit1049, AltExit47})
       => (~vt.in_alt_screen /\ call.out = <<exited>>)

C8_FlushNeverReturnsEmptyLine ==
    call.op = "flush"
    => /\ call.out = IF RStrip(call.pre.buffer) # <<>>
                     THEN <<RStrip(call.pre.buffer)>> ELSE <<>>
       /\ vt.in_alt_screen = call.pre.in_alt_screen
       /\ vt.bracketed_paste_mode = call.pre.bracketed_paste_mode

RawModeRequested == events \cap {"raw_mode", "setraw_error"} # {}

\* C9: however a session that asked for raw mode ends, the terminal is back
\* in its original mode and both log files are closed.
C9_RestoredAndClosedOnEveryExit ==
    (pc \in {"done", "raised"} /\ RawModeRequested)
    => (tty_mode = "original" /\ raw_file = "closed" /\ clean_file = "closed")

\* end of input or a failed read on either stream, or a failed write to the
\* pseudo-terminal
EndEvents ==
    {"stdin_eof", "stdin_read_error", "stdin_write_error", "pty_eof",
     "pty_read_error"}

CleanupPcs == {"finally", "done", "raised"}

\* C10 as stated: once a stream ended or any read or write failed, the
\* forwarding of pseudo-terminal output included, no further chunk is read.
C10_NoReadAfterAnyFailure ==
    [][(events \cap (EndEvents \cup {"forward_error"}) # {}) => reads' = reads]_vars

\* C10 amended: end of input or a failed read on either stream, or a failed
\* write to the pseudo-terminal, takes control to cleanup at once and no
\* chunk is read or processed afterwards; a failed forwarding write is
\* ignored and the loop goes on with the chunk.
C10_LoopEndsOnStreamEnd ==
    [][/\ (events' \cap EndEvents # {}) => pc' \in CleanupPcs
       /\ (events \cap EndEvents # {}) => (reads' = reads /\ handed' = handed)
       /\ ("forward_error" \in events' /\ "forward_error" \notin events)
          => pc' = "raw_write"]_vars

C10_Witness ==
    /\ pc = "finally"
    /\ "stdin_eof" \in events
    /\ "forward_error" \in events
    /\ Len(reads) >= 2
    /\ handed = Flatten(reads)

StartupErrors == {"makedirs_error", "open_error"}

\* C11: once creating the log directory or opening a log file has failed,
\* the error is reported and the program is at its exit, the shell never
\* spawned and the terminal mode never changed.
C11_StartupFailureExitsBeforeShell ==
    (events \cap StartupErrors # {})
    => /\ pc = "exit"
       /\ "error_reported" \in events
       /\ ~shell_spawned
       /\ tty_mode = "original"
       /\ old_tty = "none"

C11_Witness ==
    /\ pc = "exit"
    /\ "open_error" \in events
    /\ raw_file = "open"
    /\ clean_file = "unopened"
    /\ ~shell_spawned

ControlChars == {CR, LF, BS, BEL, ESC}

\* the buffer after char is written at 0-based column c of buffer old
WrittenAt(old, new, c, char) ==
    /\ Len(new) = Max(Len(old), c + 1)
    /\ new[c + 1] = char
    /\ \A i \in 1..Len(old) : i # c + 1 => new[i] = old[i]
    /\ \A i \in (Len(old) + 1)..c : new[i] = " "

\* C12: an ordinary character written with the cursor at column c replaces
\* position c alone, pads with spaces from the old length up to c, makes the
\* length max(old length, c+1) and moves the cursor to c+1; "foo", two
\* backspaces, "bar", line feed gives the line "fbar".
C12_WriteOverwritesAtCursor ==
    /\ (call.op = "process" /\ Len(call.arg) = 1 /\ call.arg[1] \notin ControlChars)
       => /\ WrittenAt(call.pre.buffer, vt.buffer, call.pre.cursor_x, call.arg[1])
          /\ vt.cursor_x = call.pre.cursor_x + 1
          /\ call.out = <<>>
    /\ (/\ call.op = "process"
        /\ call.arg = FooBarChunk
        /\ call.pre.buffer = <<>>
        /\ call.pre.cursor_x = 0)
       => (call.out = <<<<"f", "b", "a", "r">>>> /\ vt.buffer = <<>>)

C12_Witness ==
    /\ call.op = "process"
    /\ call.arg = <<"Z">>
    /\ call.pre.buffer = <<"a">>
    /\ call.pre.cursor_x = 2
    /\ vt.buffer = <<"a", " ", "Z">>
    /\ vt.cursor_x = 3

\* the lines a completed-line event emits for a buffer
TrimmedLine(buffer) == IF RStrip(buffer) # <<>> THEN <<RStrip(buffer)>> ELSE <<>>

\* C13: a carriage return in normal mode only puts the cursor at column 0;
\* in alternate-screen mode it emits the trimmed buffer when non-empty and
\* empties buffer and cursor; "hello", carriage return, line feed in normal
\* mode gives the single line "hello".
C13_CarriageReturnByMode ==
    /\ (call.op = "process" /\ call.arg = <<CR>> /\ ~call.pre.in_alt_screen)
       => (vt = [call.pre EXCEPT !.cursor_x = 0] /\ call.out = <<>>)
    /\ (call.op = "process" /\ call.arg = <<CR>> /\ call.pre.in_alt_screen)
       => /\ vt = [call.pre EXCEPT !.buffer = <<>>, !.cursor_x = 0]
          /\ call.out = TrimmedLine(call.pre.buffer)
    /\ (/\ call.op = "process"
        /\ call.arg = HelloChunk
        /\ ~call.pre.in_alt_screen
        /\ call.pre.buffer = <<>>
        /\ call.pre.cursor_x = 0)
       => call.out = <<<<"h", "e", "l", "l", "o">>>>

C13_Witness ==
    /\ call.op = "process"
    /\ call.arg = <<CR>>
    /\ call.pre.in_alt_screen
    /\ call.pre.buffer = <<"a", " ">>
    /\ call.out = <<<<"a">>>>
    /\ vt.buffer = <<>>

\* C14: a CSI sequence ending in A, B, H or f completes the line (trimmed
\* buffer emitted when non-empty, buffer and cursor reset) exactly when the
\* alternate-screen flag is set, and otherwise changes nothing; alternate
\* screen entered, "menu" written, ESC[1;1H emits "menu" and empties the
\* buffer.
C14_CursorMoveCompletesLineInAltOnly ==
    /\ (call.op = "process" /\ call.arg \in CursorMoves /\ call.pre.in_alt_screen)
       => /\ vt = [call.pre EXCEPT !.buffer = <<>>, !.cursor_x = 0]
          /\ call.out = TrimmedLine(call.pre.buffer)
    /\ (call.op = "process" /\ call.arg \in CursorMoves /\ ~call.pre.in_alt_screen)
       => (vt = call.pre /\ call.out = <<>>)
    /\ (/\ call.op = "process"
        /\ call.arg = MenuChunk
        /\ call.pre.buffer = <<>>
        /\ call.pre.cursor_x = 0)
       => /\ call.out = <<EnteredMarker, <<"m", "e", "n", "u">>>>
          /\ vt.buffer = <<>>
          /\ vt.cursor_x = 0

C14_Witness ==
    /\ call.op = "process"
    /\ call.arg = <<ESC, "[", "2", ";", "3", "f">>
    /\ call.pre.in_alt_screen
    /\ call.pre.buffer = <<"a", " ">>
    /\ call.out = <<<<"a">>>>
    /\ vt.buffer = <<>>
    /\ vt.in_alt_screen

\* the mode of each erase-line sequence tried: its number, 0 when the
\* parameter is absent or is no number
ModeOf(seq) ==
    CASE seq = <<ESC, "[", "K">> -> 0
      [] seq = <<ESC, "[", "0", "K">> -> 0
      [] seq = <<ESC, "[", "2", "K">> -> 2
      [] seq = <<ESC, "[", "0", "2", "K">> -> 2
      [] seq = <<ESC, "[", "1", "K">> -> 1
      [] seq = <<ESC, "[", "2", "2", "K">> -> 22
      [] seq = <<ESC, "[", "?", "K">> -> 0
      [] seq = <<ESC, "[", "2", ";", "K">> -> 0

\* buffer cut down to its first c characters
TruncatedTo(buffer, c) == SubSeq(buffer, 1, IF c < Len(buffer) THEN c ELSE Len(buffer))

\* C15: a CSI sequence ending in K with mode 0 truncates the buffer to the
\* cursor column and keeps the cursor, with mode 2 empties the buffer and
\* puts the cursor at 0, with any other mode changes nothing; it never emits
\* a line or changes a mode flag.
C15_EraseLineByMode ==
    (call.op = "process" /\ call.arg \in EraseSeqs)
    => /\ call.out = <<>>
       /\ ModeOf(call.arg) = 0
          => vt = [call.pre EXCEPT
                     !.buffer = TruncatedTo(call.pre.buffer, call.pre.cursor_x)]
       /\ ModeOf(call.arg) = 2
          => vt = [call.pre EXCEPT !.buffer = <<>>, !.cursor_x = 0]
       /\ ModeOf(call.arg) \notin {0, 2} => vt = call.pre

C15_Witness ==
    /\ call.op = "process"
    /\ call.arg = <<ESC, "[", "?", "K">>
    /\ call.pre.buffer = <<"a", " ">>
    /\ call.pre.cursor_x = 1
    /\ vt.buffer = <<"a">>
    /\ vt.cursor_x = 1

\* C16: OSC sequences, two-character escapes and CSI sequences without a
\* branch of their own emit nothing and change nothing; bracketed-paste on
\* and off emit nothing and change the bracketed-paste flag alone; inside
\* text they leave the line as if they were not there.
C16_SilentSequencesChangeNothing ==
    /\ (call.op = "process" /\ call.arg \in SilentSeqs)
       => (vt = call.pre /\ call.out = <<>>)
    /\ (call.op = "process" /\ call.arg = PasteOn)
       => (vt = [call.pre EXCEPT !.bracketed_paste_mode = TRUE] /\ call.out = <<>>)
    /\ (call.op = "process" /\ call.arg = PasteOff)
       => (vt = [call.pre EXCEPT !.bracketed_paste_mode = FALSE] /\ call.out = <<>>)
    /\ (/\ call.op = "process"
        /\ call.arg = SilentInTextChunk
        /\ call.pre.buffer = <<>>
        /\ call.pre.cursor_x = 0)
       => /\ call.out = <<<<"a", "b", "c">>>>
          /\ vt = [call.pre EXCEPT !.bracketed_paste_mode = TRUE]

C16_Witness ==
    /\ call.op = "process"
    /\ call.arg = <<ESC, "]", "2", ";", "t", ESC, BSLASH>>
    /\ call.pre.buffer = <<"a", " ">>
    /\ call.pre.cursor_x = 1
    /\ call.pre.in_alt_screen
    /\ vt = call.pre
    /\ call.out = <<>>

\* the chunk is ordinary characters only, at least one
OrdinaryText(chunk) ==
    chunk # <<>> /\ \A i \in 1..Len(chunk) : chunk[i] \notin ControlChars

\* C17 as stated: after a text write the buffer is at least one longer than
\* the cursor column of the resulting state.
C17_BufferLongerThanCursorAfter ==
    (call.op = "process" /\ OrdinaryText(call.arg))
    => Len(vt.buffer) >= vt.cursor_x + 1

\* C17 amended: after a text write the buffer is at least as long as the
\* cursor column of the resulting state, which is one past the column
\* written last.
C17_BufferReachesCursor ==
    (call.op = "process" /\ OrdinaryText(call.arg))
    => /\ vt.cursor_x = call.pre.cursor_x + Len(call.arg)
       /\ Len(vt.buffer) >= vt.cursor_x
       /\ Len(vt.buffer) = Max(Len(call.pre.buffer), vt.cursor_x)

C17_Witness ==
    /\ call.op = "process"
    /\ call.arg = <<"Z">>
    /\ call.pre.buffer = <<"a">>
    /\ call.pre.cursor_x = 1
    /\ vt.buffer = <<"a", "Z">>
    /\ vt.cursor_x = 2

\* the 1-based column each cursor-horizontal sequence tried carries, -1 when
\* the parameter is absent or is no number
ColumnOf(seq) ==
    CASE seq = <<ESC, "[", "0", "G">> -> 0
      [] seq = <<ESC, "[", "1", "G">> -> 1
      [] seq = <<ESC, "[", "3", "G">> -> 3
      [] seq = <<ESC, "[", "1", "2", "G">> -> 12
      [] seq = <<ESC, "[", "2", BACKTICK>> -> 2
      [] seq = <<ESC, "[", "G">> -> -1
      [] seq = <<ESC, "[", "?", "G">> -> -1
      [] seq = <<ESC, "[", "1", ";", "2", "G">> -> -1

\* C18: the cursor column is never negative; backspace at column 0 leaves
\* it at 0 (and elsewhere moves it one back); a sequence ending in G or
\* backtick with column n puts the cursor at max(0, n-1), and with no
\* usable parameter changes nothing.
C18_CursorNeverNegative ==
    /\ vt.cursor_x \in Nat
    /\ (call.op = "process" /\ call.arg = <<BS>>)
       => /\ vt = [call.pre EXCEPT
                     !.cursor_x = IF call.pre.cursor_x = 0 THEN 0
                                  ELSE call.pre.cursor_x - 1]
          /\ call.out = <<>>
    /\ (call.op = "process" /\ call.arg \in ColumnSeqs)
       => /\ call.out = <<>>
          /\ ColumnOf(call.arg) = -1 => vt = call.pre
          /\ ColumnOf(call.arg) >= 1
             => vt = [call.pre EXCEPT !.cursor_x = ColumnOf(call.arg) - 1]
          /\ ColumnOf(call.arg) = 0 => vt = [call.pre EXCEPT !.cursor_x = 0]

C18_Witness ==
    /\ call.op = "process"
    /\ call.arg = <<ESC, "[", "0", "G">>
    /\ call.pre.cursor_x = 2
    /\ call.pre.buffer = <<"a", " ">>
    /\ vt.cursor_x = 0
    /\ vt.buffer = <<"a", " ">>

\* a pending string is empty, or one escape character followed by at most
\* Lookback - 1 other characters
WellFormedPending(pending) ==
    \/ pending = <<>>
    \/ /\ pending[1] = ESC
       /\ \A i \in 2..Len(pending) : pending[i] # ESC
       /\ Len(pending) <= Lookback

\* the text a feed has received so far
ReceivedWhole == IF feed.whole_done THEN feed.stream ELSE <<>>

ReceivedSplit ==
    IF feed.chunks_fed = 0 THEN <<>>
    ELSE IF feed.chunks_fed = 1 THEN Slice(feed.stream, 0, feed.cut)
    ELSE feed.stream

\* C19: after every step of the boundary buffer the pending string is empty
\* or starts with the only escape character it holds and is at most 256
\* long, and what was released followed by what is pending is the text
\* received, in order.
C19_PendingIsOneShortEscapeTail ==
    feed.phase = "feeding"
    => /\ WellFormedPending(feed.whole.pending)
       /\ WellFormedPending(feed.split.pending)
       /\ feed.whole.released \o feed.whole.pending = ReceivedWhole
       /\ feed.split.released \o feed.split.pending = ReceivedSplit

C19_Witness ==
    /\ feed.phase = "feeding"
    /\ feed.chunks_fed = 1
    /\ Len(feed.split.pending) = Lookback
    /\ feed.split.released # <<>>
    /\ feed.whole_done
    /\ feed.whole.pending = <<>>
    /\ Len(feed.whole.released) > Lookback

\* the lines of a processed remainder, then one flush of the line buffer
LinesThenOneFlush(res) == res.lines \o Flush(res.vt)

\* what the claim has the session end record: the pending text processed,
\* then the line buffer flushed once
SessionEndLines(v, pending) ==
    IF pending # <<>> THEN LinesThenOneFlush(Process(v, pending))
    ELSE LinesThenOneFlush(St(v, <<>>))

\* C20: the records the session end appends to the clean log are the lines
\* of the pending text processed, followed by one flush of the line buffer;
\* a buffered partial line is recorded at most once.
C20_SessionEndFlushesOnce ==
    [][(pc = "finally" /\ pc' = "done")
       => clean_log' = clean_log \o SessionEndLines(vt, clean_log_buffer)]_vars

====
